---- MODULE Spec2Model ----
(***************************************************************************)
(* Model of proxy-server.js: the four POST handlers (/token, /generate,    *)
(* /generateTable, /analytics) and the text normalisation they perform.    *)
(*                                                                         *)
(* A JavaScript string is modelled as a sequence of one-character strings, *)
(* so that trim, split, includes, the regular-expression replacements and  *)
(* JSON.parse are computed character by character as the code does.        *)
(***************************************************************************)
EXTENDS Integers, Sequences, FiniteSets

\* ------------------------------------------------------------------------
\* Bounds of the model
\* ------------------------------------------------------------------------
MaxLen == 3
MaxCount == 3
MaxRows == 2
MaxCols == 2
RandDen == 2

\* ------------------------------------------------------------------------
\* String primitives (String.prototype methods used by the code)
\* ------------------------------------------------------------------------
Min(S) == CHOOSE x \in S : \A y \in S : x <= y

Max(S) == CHOOSE x \in S : \A y \in S : x >= y

\* the smallest (largest) index of a set of indices, or 0 when there is none
FirstIndex(I) == IF I = {} THEN 0 ELSE Min(I)
LastIndex(I) == IF I = {} THEN 0 ELSE Max(I)

\* \s of the regular expressions and the characters trim() removes
IsSpace(c) == c \in {" ", "\n", "\t", "\r", "\f"}

Digits == {"0", "1", "2", "3", "4", "5", "6", "7", "8", "9"}

\* index of the first character at or after p that is not white space
RECURSIVE SkipSpace(_, _)
SkipSpace(s, p) == IF p <= Len(s) /\ IsSpace(s[p]) THEN SkipSpace(s, p + 1) ELSE p

RECURSIVE trimStart(_)
trimStart(s) ==
  IF Len(s) > 0 /\ IsSpace(s[1]) THEN trimStart(Tail(s)) ELSE s

RECURSIVE trimEnd(_)
trimEnd(s) ==
  IF Len(s) > 0 /\ IsSpace(s[Len(s)]) THEN trimEnd(SubSeq(s, 1, Len(s) - 1)) ELSE s

trim(s) == trimEnd(trimStart(s))

\* smallest index j >= i with s[j] = c, or 0 when there is none
IndexFrom(s, c, i) == FirstIndex({j \in i..Len(s) : s[j] = c})

includes(s, sub) ==
  \E i \in 1..(Len(s) - Len(sub) + 1) : SubSeq(s, i, i + Len(sub) - 1) = sub

startsWith(s, sub) == Len(s) >= Len(sub) /\ SubSeq(s, 1, Len(sub)) = sub

endsWith(s, sub) ==
  Len(s) >= Len(sub) /\ SubSeq(s, Len(s) - Len(sub) + 1, Len(s)) = sub

RECURSIVE split(_, _)
\* the pieces of s, whose first separator c is at index j (0: none)
splitAt(s, c, j) ==
  IF j = 0 THEN <<s>>
  ELSE <<SubSeq(s, 1, j - 1)>> \o split(SubSeq(s, j + 1, Len(s)), c)

split(s, c) == splitAt(s, c, IndexFrom(s, c, 1))

Map(f(_), xs) == [i \in 1..Len(xs) |-> f(xs[i])]

RECURSIVE Filter(_, _)
Filter(P(_), xs) ==
  IF Len(xs) = 0 THEN <<>>
  ELSE (IF P(xs[1]) THEN <<xs[1]>> ELSE <<>>) \o Filter(P, Tail(xs))

NonEmpty(s) == Len(s) > 0

slice(xs, n) == SubSeq(xs, 1, IF n < Len(xs) THEN n ELSE Len(xs))

\* s.replace(/^q|q$/g, ''): one leading q and one trailing q are removed
stripFirst(s, q) == IF Len(s) > 0 /\ s[1] = q THEN Tail(s) ELSE s

stripLast(s, q) == IF Len(s) > 0 /\ s[Len(s)] = q THEN SubSeq(s, 1, Len(s) - 1) ELSE s

stripQuote(s, q) == stripLast(stripFirst(s, q), q)

stripQuotes(s) == stripQuote(stripQuote(s, "\""), "'")

\* s.replace(/^[-*\d\.)\s]+/, ''): the leading list marker is removed
RECURSIVE stripMarker(_)
stripMarker(s) ==
  IF Len(s) > 0 /\ (s[1] \in {"-", "*", ".", ")"} \/ s[1] \in Digits \/ IsSpace(s[1]))
  THEN stripMarker(Tail(s)) ELSE s

\* ------------------------------------------------------------------------
\* JSON values and JSON.parse
\*   t = "str": s is the string          t = "num": s is String(number)
\*   t = "lit": s is true, false, null   t = "arr": a is the elements
\*   t = "obj": k is the keys, a the values, in source order
\* Numbers are integers; \b and \uXXXX escapes are outside the alphabet.
\* ------------------------------------------------------------------------
Str(s) == [s |-> s, t |-> "str", a |-> <<>>, k |-> <<>>]
Num(s) == [s |-> s, t |-> "num", a |-> <<>>, k |-> <<>>]
Lit(s) == [s |-> s, t |-> "lit", a |-> <<>>, k |-> <<>>]
Arr(a) == [s |-> <<>>, t |-> "arr", a |-> a, k |-> <<>>]
Obj(k, a) == [s |-> <<>>, t |-> "obj", a |-> a, k |-> k]
Undefined == [s |-> <<>>, t |-> "undefined", a |-> <<>>, k |-> <<>>]

ParseFail == [p |-> 0, ok |-> FALSE, v |-> Undefined]
ParseOk(v, p) == [p |-> p, ok |-> TRUE, v |-> v]

RECURSIVE SkipWs(_, _)
SkipWs(s, p) ==
  IF p <= Len(s) /\ s[p] \in {" ", "\n", "\t", "\r"} THEN SkipWs(s, p + 1) ELSE p

Unescape(c) ==
  CASE c = "n" -> "\n"
    [] c = "t" -> "\t"
    [] c = "r" -> "\r"
    [] c = "f" -> "\f"
    [] OTHER -> c

\* the characters of a string literal after its opening quote
RECURSIVE ParseChars(_, _, _)
ParseChars(s, p, acc) ==
  IF p > Len(s) THEN ParseFail
  ELSE IF s[p] = "\"" THEN ParseOk(Str(acc), p + 1)
  ELSE IF s[p] = "\\" THEN
    IF p + 1 <= Len(s) /\ s[p + 1] \in {"\"", "\\", "/", "n", "t", "r", "f"}
    THEN ParseChars(s, p + 2, Append(acc, Unescape(s[p + 1])))
    ELSE ParseFail
  ELSE IF s[p] \in {"\n", "\t", "\r", "\f"} THEN ParseFail
  ELSE ParseChars(s, p + 1, Append(acc, s[p]))

RECURSIVE DigitsEnd(_, _)
DigitsEnd(s, p) == IF p <= Len(s) /\ s[p] \in Digits THEN DigitsEnd(s, p + 1) ELSE p

\* the number at p whose digits are s[d..e-1]
ParseDigits(s, p, d, e) ==
  IF e = d \/ (s[d] = "0" /\ e > d + 1) THEN ParseFail
  ELSE IF SubSeq(s, p, e - 1) = <<"-","0">> THEN ParseOk(Num(<<"0">>), e)
  ELSE ParseOk(Num(SubSeq(s, p, e - 1)), e)

ParseSigned(s, p, d) == ParseDigits(s, p, d, DigitsEnd(s, d))

ParseNumber(s, p) == ParseSigned(s, p, IF s[p] = "-" THEN p + 1 ELSE p)

\* whether sub occurs in s at index p
At(s, p, sub) == p + Len(sub) - 1 <= Len(s) /\ SubSeq(s, p, p + Len(sub) - 1) = sub

ParseLiteral(s, p) ==
  IF At(s, p, <<"t","r","u","e">>) THEN ParseOk(Lit(<<"t","r","u","e">>), p + 4)
  ELSE IF At(s, p, <<"n","u","l","l">>) THEN ParseOk(Lit(<<"n","u","l","l">>), p + 4)
  ELSE IF At(s, p, <<"f","a","l","s","e">>) THEN ParseOk(Lit(<<"f","a","l","s","e">>), p + 5)
  ELSE ParseFail

RECURSIVE ParseValue(_, _)
RECURSIVE ParseElements(_, _, _)
RECURSIVE ParseMembers(_, _, _, _)

\* the array whose first element starts at q (white space after [ skipped)
ParseArray(s, q) ==
  IF q <= Len(s) /\ s[q] = "]" THEN ParseOk(Arr(<<>>), q + 1)
  ELSE ParseElements(s, q, <<>>)

\* the object whose first member starts at q (white space after { skipped)
ParseObject(s, q) ==
  IF q <= Len(s) /\ s[q] = "}" THEN ParseOk(Obj(<<>>, <<>>), q + 1)
  ELSE ParseMembers(s, q, <<>>, <<>>)

\* a value starting at p (white space before it already skipped)
ParseValue(s, p) ==
  IF p > Len(s) THEN ParseFail
  ELSE IF s[p] = "\"" THEN ParseChars(s, p + 1, <<>>)
  ELSE IF s[p] = "[" THEN ParseArray(s, SkipWs(s, p + 1))
  ELSE IF s[p] = "{" THEN ParseObject(s, SkipWs(s, p + 1))
  ELSE IF s[p] = "-" \/ s[p] \in Digits THEN ParseNumber(s, p)
  ELSE ParseLiteral(s, p)

\* what follows at q the elements acc of an array
ElementsNext(s, q, acc) ==
  IF q > Len(s) THEN ParseFail
  ELSE IF s[q] = "," THEN ParseElements(s, SkipWs(s, q + 1), acc)
  ELSE IF s[q] = "]" THEN ParseOk(Arr(acc), q + 1)
  ELSE ParseFail

\* the elements acc of an array followed by the element whose parse is r
ElementParsed(s, r, acc) ==
  IF ~r.ok THEN ParseFail ELSE ElementsNext(s, SkipWs(s, r.p), Append(acc, r.v))

ParseElements(s, p, acc) == ElementParsed(s, ParseValue(s, p), acc)

\* what follows at q the members ks, vs of an object
MembersNext(s, q, ks, vs) ==
  IF q > Len(s) THEN ParseFail
  ELSE IF s[q] = "," THEN ParseMembers(s, SkipWs(s, q + 1), ks, vs)
  ELSE IF s[q] = "}" THEN ParseOk(Obj(ks, vs), q + 1)
  ELSE ParseFail

\* the member whose key is k and whose value's parse is r
MemberParsed(s, k, r, ks, vs) ==
  IF ~r.ok THEN ParseFail
  ELSE MembersNext(s, SkipWs(s, r.p), Append(ks, k), Append(vs, r.v))

\* the member whose key is k, the colon being expected at c
MemberColon(s, k, c, ks, vs) ==
  IF c > Len(s) \/ s[c] # ":" THEN ParseFail
  ELSE MemberParsed(s, k, ParseValue(s, SkipWs(s, c + 1)), ks, vs)

\* the member whose key's parse is key
MemberKey(s, key, ks, vs) ==
  IF ~key.ok THEN ParseFail ELSE MemberColon(s, key.v.s, SkipWs(s, key.p), ks, vs)

ParseMembers(s, p, ks, vs) ==
  IF p > Len(s) \/ s[p] # "\"" THEN ParseFail
  ELSE MemberKey(s, ParseChars(s, p + 1, <<>>), ks, vs)

\* r when the parse r consumed the whole of s
WholeText(s, r) == IF r.ok /\ SkipWs(s, r.p) = Len(s) + 1 THEN r ELSE ParseFail

\* JSON.parse(s): ok is FALSE where JSON.parse throws a SyntaxError
JSONparse(s) == WholeText(s, ParseValue(s, SkipWs(s, 1)))

\* String(x) of a parsed JSON value
RECURSIVE String(_)
RECURSIVE JoinElements(_)
String(v) ==
  CASE v.t = "arr" -> JoinElements(v.a)
    [] v.t = "obj" -> <<"[","o","b","j","e","c","t"," ","O","b","j","e","c","t","]">>
    [] OTHER -> v.s

JoinElements(a) ==
  IF Len(a) = 0 THEN <<>>
  ELSE (IF a[1].t = "lit" /\ a[1].s = <<"n","u","l","l">> THEN <<>> ELSE String(a[1]))
       \o (IF Len(a) > 1 THEN <<",">> \o JoinElements(Tail(a)) ELSE <<>>)

\* ------------------------------------------------------------------------
\* normalizeToList
\* ------------------------------------------------------------------------
\* t.replace(/(^\s*\[\s*)'([^']*)'/g, '["$2"')
\* index after ^\s*\[\s* when t has that prefix at b, or 0
ListStart(t, b) == IF b <= Len(t) /\ t[b] = "[" THEN SkipSpace(t, b + 1) ELSE 0

\* index of the quote closing '([^']*)' at index q, or 0
QuotedEnd(t, q) ==
  IF q > 0 /\ q <= Len(t) /\ t[q] = "'" THEN IndexFrom(t, "'", q + 1) ELSE 0

\* t with its prefix up to the quoted item t[q..j] replaced by ["item"
ListStartReplaced(t, q, j) ==
  IF j = 0 THEN t
  ELSE <<"[", "\"">> \o SubSeq(t, q + 1, j - 1) \o <<"\"">> \o SubSeq(t, j + 1, Len(t))

ReplaceListStartAt(t, q) == ListStartReplaced(t, q, QuotedEnd(t, q))

ReplaceListStart(t) == ReplaceListStartAt(t, ListStart(t, SkipSpace(t, 1)))

\* index of the quote closing ,'([^']*)' at index i, or 0
MidEnd(t, i) ==
  IF t[i] = "," /\ i + 1 <= Len(t) /\ t[i + 1] = "'" THEN IndexFrom(t, "'", i + 2) ELSE 0

\* t.replace(/,'([^']*)'/g, ',"$1"'), scanning from index i
RECURSIVE ReplaceMid(_, _)
\* the match t[m..j] replaced, then the rest of t
ReplaceMidMatch(t, i, m, j) ==
  SubSeq(t, i, m - 1) \o <<",", "\"">> \o SubSeq(t, m + 2, j - 1) \o <<"\"">>
  \o ReplaceMid(t, j + 1)

\* m is the index of the first match at or after i (0: none)
ReplaceMidAt(t, i, m) ==
  IF m = 0 THEN SubSeq(t, i, Len(t)) ELSE ReplaceMidMatch(t, i, m, MidEnd(t, m))

ReplaceMid(t, i) == ReplaceMidAt(t, i, FirstIndex({m \in i..Len(t) : MidEnd(t, m) > 0}))

\* index of the ] ending '([^']*)'\s*\] at index i, or 0
BracketAt(t, k) == IF k <= Len(t) /\ t[k] = "]" THEN k ELSE 0

BracketAfter(t, j) == IF j = 0 THEN 0 ELSE BracketAt(t, SkipSpace(t, j + 1))

ListEndEnd(t, i) == BracketAfter(t, QuotedEnd(t, i))

\* t.replace(/'([^']*)'\s*\]/g, '"$1"]'), scanning from index i
RECURSIVE ReplaceListEnd(_, _)
\* the match from the quote at m to the bracket at k replaced, then the rest
ReplaceListEndMatch(t, i, m, j, k) ==
  SubSeq(t, i, m - 1) \o <<"\"">> \o SubSeq(t, m + 1, j - 1) \o <<"\"", "]">>
  \o ReplaceListEnd(t, k + 1)

\* m is the index of the first match at or after i (0: none)
ReplaceListEndAt(t, i, m) ==
  IF m = 0 THEN SubSeq(t, i, Len(t))
  ELSE ReplaceListEndMatch(t, i, m, IndexFrom(t, "'", m + 1), ListEndEnd(t, m))

ReplaceListEnd(t, i) ==
  ReplaceListEndAt(t, i, FirstIndex({m \in i..Len(t) : ListEndEnd(t, m) > 0}))

jsonLike(t) == ReplaceListEnd(ReplaceMid(ReplaceListStart(t), 1), 1)

TrimmedString(x) == trim(String(x))

csvItem(s) == stripQuotes(trim(s))

lineItem(s) == stripQuotes(trim(stripMarker(s)))

\* normalizeToList(text) for a non-empty string text
\* listOf with the CSV test made before the JSON one
listOfCsvFirst(t, arr) ==
  IF includes(t, <<",">>) /\ ~includes(t, <<"\n">>)
  THEN Filter(NonEmpty, Map(csvItem, split(t, ",")))
  ELSE IF startsWith(t, <<"[">>) /\ includes(t, <<"]">>) /\ arr.ok /\ arr.v.t = "arr"
  THEN Filter(NonEmpty, Map(TrimmedString, arr.v.a))
  ELSE Filter(NonEmpty, Map(lineItem, split(t, "\n")))

\* the list of the trimmed text t, arr being JSON.parse(jsonLike) of it
listOf(t, arr) ==
  IF startsWith(t, <<"[">>) /\ includes(t, <<"]">>) /\ arr.ok /\ arr.v.t = "arr"
  THEN Filter(NonEmpty, Map(TrimmedString, arr.v.a))
  ELSE IF includes(t, <<",">>) /\ ~includes(t, <<"\n">>)
  THEN Filter(NonEmpty, Map(csvItem, split(t, ",")))
  ELSE Filter(NonEmpty, Map(lineItem, split(t, "\n")))

listOfTrimmed(t) == listOf(t, JSONparse(jsonLike(t)))

normalizeToList(text) == listOfTrimmed(trim(text))

\* ------------------------------------------------------------------------
\* /generateTable: structured parse
\* ------------------------------------------------------------------------
Letters ==
  {"a", "b", "c", "d", "e", "f", "g", "h", "i", "j", "k", "l", "m",
   "n", "o", "p", "q", "r", "s", "t", "u", "v", "w", "x", "y", "z",
   "A", "B", "C", "D", "E", "F", "G", "H", "I", "J", "K", "L", "M",
   "N", "O", "P", "Q", "R", "S", "T", "U", "V", "W", "X", "Y", "Z"}

RECURSIVE LettersEnd(_, _)
LettersEnd(s, p) == IF p <= Len(s) /\ s[p] \in Letters THEN LettersEnd(s, p + 1) ELSE p

\* t.replace(/^```[a-zA-Z]*\n|```$/g, ''); the grave accent, which a TLA+
\* string cannot hold, is the character written "GRAVE"
\* t without an opening fence whose language tag ends before index e
stripOpening(t, e) ==
  IF At(t, 1, <<"GRAVE","GRAVE","GRAVE">>) /\ e <= Len(t) /\ t[e] = "\n" THEN SubSeq(t, e + 1, Len(t)) ELSE t

stripClosing(a) == IF endsWith(a, <<"GRAVE","GRAVE","GRAVE">>) THEN SubSeq(a, 1, Len(a) - 3) ELSE a

stripFences(t) == stripClosing(stripOpening(t, LettersEnd(t, 4)))

\* [a-zA-Z0-9_\s]
IsKeyChar(c) == c \in Letters \/ c \in Digits \/ c = "_" \/ IsSpace(c)

RECURSIVE KeyEnd(_, _)
KeyEnd(s, p) == IF p <= Len(s) /\ IsKeyChar(s[p]) THEN KeyEnd(s, p + 1) ELSE p

\* index of the colon ending "?([a-zA-Z0-9_\s]+)"?\s*: at index i, or 0
\* index of the first key character of a match at index i
KeyStart(t, i) == IF t[i] = "\"" THEN i + 1 ELSE i

ColonAt(t, k) == IF k <= Len(t) /\ t[k] = ":" THEN k ELSE 0

\* the key characters are t[g..e-1]
KeyColonAfter(t, g, e) ==
  IF e > g
  THEN ColonAt(t, SkipSpace(t, IF e <= Len(t) /\ t[e] = "\"" THEN e + 1 ELSE e))
  ELSE 0

KeyColonFrom(t, g) == KeyColonAfter(t, g, KeyEnd(t, g))

KeyColon(t, i) == KeyColonFrom(t, KeyStart(t, i))

\* t.replace(/"?([a-zA-Z0-9_\s]+)"?\s*:/g, '"$1":'), scanning from index i
RECURSIVE quoteKeys(_, _)
\* the match at m, whose key starts at g and whose colon is at k, replaced
quoteKeysMatch(t, i, m, g, k) ==
  SubSeq(t, i, m - 1) \o <<"\"">> \o SubSeq(t, g, KeyEnd(t, g) - 1)
  \o <<"\"", ":">> \o quoteKeys(t, k + 1)

\* m is the index of the first match at or after i (0: none)
quoteKeysAt(t, i, m) ==
  IF m = 0 THEN SubSeq(t, i, Len(t))
  ELSE quoteKeysMatch(t, i, m, KeyStart(t, m), KeyColon(t, m))

quoteKeys(t, i) == quoteKeysAt(t, i, FirstIndex({m \in i..Len(t) : KeyColon(t, m) > 0}))

\* index of the quote closing '(.*?)'(?=[,\]\}]) opened at index o, or 0
ClosingQuote(t, o) ==
  FirstIndex({j \in (o + 1)..(Len(t) - 1) :
                /\ t[j] = "'"
                /\ t[j + 1] \in {",", "]", "}"}
                /\ \A m \in (o + 1)..(j - 1) : t[m] \notin {"\n", "\r"}})

\* index of the opening quote of a match of (^|[^\\])'(.*?)'(?=[,\]\}]) that
\* starts at index i, or 0
OpeningQuote(t, i) ==
  IF i = 1 /\ t[1] = "'" /\ ClosingQuote(t, 1) > 0 THEN 1
  ELSE IF t[i] # "\\" /\ i + 1 <= Len(t) /\ t[i + 1] = "'" /\ ClosingQuote(t, i + 1) > 0
  THEN i + 1
  ELSE 0

\* t.replace(/(^|[^\\])'(.*?)'(?=[,\]\}])/g, (m, p1, p2) => `${p1}"${p2}"`)
RECURSIVE fixSingleQuotes(_, _)
\* the quotes at o and j replaced, then the rest of t
fixSingleQuotesMatch(t, i, o, j) ==
  SubSeq(t, i, o - 1) \o <<"\"">> \o SubSeq(t, o + 1, j - 1) \o <<"\"">>
  \o fixSingleQuotes(t, j + 1)

fixSingleQuotesFrom(t, i, o) == fixSingleQuotesMatch(t, i, o, ClosingQuote(t, o))

\* m is the index of the first match at or after i (0: none)
fixSingleQuotesAt(t, i, m) ==
  IF m = 0 THEN SubSeq(t, i, Len(t)) ELSE fixSingleQuotesFrom(t, i, OpeningQuote(t, m))

fixSingleQuotes(t, i) ==
  fixSingleQuotesAt(t, i, FirstIndex({m \in i..Len(t) : OpeningQuote(t, m) > 0}))

\* index of the bracket ending ,\s*([\]\}]) at index i, or 0
CloserAt(t, k) == IF k <= Len(t) /\ t[k] \in {"]", "}"} THEN k ELSE 0

CommaEnd(t, i) == IF t[i] = "," THEN CloserAt(t, SkipSpace(t, i + 1)) ELSE 0

\* t.replace(/,\s*([\]\}])/g, '$1')
RECURSIVE removeTrailingCommas(_, _)
\* m is the index of the first match at or after i (0: none)
removeTrailingCommasAt(t, i, m) ==
  IF m = 0 THEN SubSeq(t, i, Len(t))
  ELSE SubSeq(t, i, m - 1) \o removeTrailingCommas(t, CommaEnd(t, m))

removeTrailingCommas(t, i) ==
  removeTrailingCommasAt(t, i, FirstIndex({m \in i..Len(t) : CommaEnd(t, m) > 0}))

\* index of the last colon of a match of \["([^"]*):\s*([^"]*)"\] at index i, or 0
\* the string opened at index i + 1 closes at e (0: never)
KeyValueColonIn(t, i, e) ==
  IF e > 0 /\ e + 1 <= Len(t) /\ t[e + 1] = "]"
  THEN LastIndex({c \in (i + 2)..(e - 1) : t[c] = ":"})
  ELSE 0

KeyValueColon(t, i) ==
  KeyValueColonIn(t, i, IF At(t, i, <<"[","\"">>) THEN IndexFrom(t, "\"", i + 2) ELSE 0)

\* t.replace(/\["([^"]*):\s*([^"]*)"\]/g, '["$1", "$2"]')
RECURSIVE fixKeyValueArrays(_, _)
\* the match at m, whose colon is at c and whose closing quote is at e, replaced
fixKeyValueArraysMatch(t, i, m, c, e) ==
  SubSeq(t, i, m - 1) \o <<"[","\"">> \o SubSeq(t, m + 2, c - 1) \o <<"\"",","," ","\"">>
  \o trimStart(SubSeq(t, c + 1, e - 1)) \o <<"\"","]">>
  \o fixKeyValueArrays(t, e + 2)

\* m is the index of the first match at or after i (0: none)
fixKeyValueArraysAt(t, i, m) ==
  IF m = 0 THEN SubSeq(t, i, Len(t))
  ELSE fixKeyValueArraysMatch(t, i, m, KeyValueColon(t, m), IndexFrom(t, "\"", m + 2))

fixKeyValueArrays(t, i) ==
  fixKeyValueArraysAt(t, i, FirstIndex({m \in i..Len(t) : KeyValueColon(t, m) > 0}))

\* the clean-up pass applied when the first JSON.parse fails
normalized(cleaned) ==
  fixKeyValueArrays(
    fixKeyValueArrays(
      fixKeyValueArrays(
        removeTrailingCommas(fixSingleQuotes(quoteKeys(cleaned, 1), 1), 1), 1), 1), 1)

\* obj[name] of a parsed value: the last member with that key
ValueAt(obj, i) == IF i = 0 THEN Undefined ELSE obj.a[i]

Property(obj, name) ==
  IF obj.t = "obj" THEN ValueAt(obj, LastIndex({i \in 1..Len(obj.k) : obj.k[i] = name}))
  ELSE Undefined

\* x && x.trim() && !x.includes('[') && !x.includes('{')
WellFormedHeader(x) ==
  Len(trim(x)) > 0 /\ ~includes(x, <<"[">>) /\ ~includes(x, <<"{">>)

Cells(r) == IF r.t = "arr" THEN Map(String, r.a) ELSE <<>>

\* FitRow without r.concat(Array(cols - r.length).fill(""))
FitRowNoPad(r, cols) == IF Len(r) > cols THEN SubSeq(r, 1, cols) ELSE r

FitRow(r, cols) ==
  IF Len(r) > cols THEN SubSeq(r, 1, cols)
  ELSE r \o [i \in 1..(cols - Len(r)) |-> <<>>]

\* headers and bodyRows of parsed.headers = h and parsed.rows = r
tableOf(h, r, rows, cols) ==
  LET FitCols(row) == FitRow(row, cols)
  IN  IF h.t = "arr" /\ r.t = "arr"
      THEN [headers |-> slice(Filter(WellFormedHeader, Map(String, h.a)), cols),
            bodyRows |-> slice(Filter(NonEmpty, Map(FitCols, Map(Cells, r.a))), rows)]
      ELSE [headers |-> <<>>, bodyRows |-> <<>>]

tableOfParsed(parsed, rows, cols) ==
  IF parsed.ok
  THEN tableOf(Property(parsed.v, <<"h","e","a","d","e","r","s">>), Property(parsed.v, <<"r","o","w","s">>), rows, cols)
  ELSE [headers |-> <<>>, bodyRows |-> <<>>]

\* try { parsed = JSON.parse(cleaned) } catch { parsed = JSON.parse(normalized) }
parseRetry(first, cleaned) == IF first.ok THEN first ELSE JSONparse(normalized(cleaned))

parseCleaned(cleaned) == parseRetry(JSONparse(cleaned), cleaned)

\* the try block of /generateTable: headers and bodyRows after the structured
\* parse; both are empty when text.trim() or both JSON.parse calls throw
parseTable(text, rows, cols) ==
  IF text.t = "str"
  THEN tableOfParsed(parseCleaned(trim(stripFences(trim(text.s)))), rows, cols)
  ELSE [headers |-> <<>>, bodyRows |-> <<>>]

\* ------------------------------------------------------------------------
\* /generateTable: header fallback
\* ------------------------------------------------------------------------
UpperCase == <<"A","B","C","D","E","F","G","H","I","J","K","L","M","N","O","P","Q","R","S","T","U","V","W","X","Y","Z">>
LowerCase == <<"a","b","c","d","e","f","g","h","i","j","k","l","m","n","o","p","q","r","s","t","u","v","w","x","y","z">>

toLowerCase(s) ==
  [i \in 1..Len(s) |->
     IF \E k \in 1..26 : UpperCase[k] = s[i]
     THEN LowerCase[CHOOSE k \in 1..26 : UpperCase[k] = s[i]]
     ELSE s[i]]

userBase == <<<<"U","s","e","r"," ","I","D">>, <<"N","a","m","e">>, <<"E","m","a","i","l">>, <<"R","o","l","e">>, <<"D","e","p","a","r","t","m","e","n","t">>, <<"S","t","a","t","u","s">>>>
userExtras ==
  <<<<"U","s","e","r","n","a","m","e">>, <<"P","h","o","n","e">>, <<"L","o","c","a","t","i","o","n">>, <<"M","a","n","a","g","e","r">>, <<"L","a","s","t"," ","L","o","g","i","n">>, <<"C","r","e","a","t","e","d"," ","A","t">>, <<"C","o","u","n","t","r","y">>, <<"C","i","t","y">>>>
productBase == <<<<"P","r","o","d","u","c","t"," ","I","D">>, <<"N","a","m","e">>, <<"C","a","t","e","g","o","r","y">>, <<"P","r","i","c","e">>, <<"S","t","o","c","k">>, <<"R","a","t","i","n","g">>>>
productExtras ==
  <<<<"S","K","U">>, <<"B","r","a","n","d">>, <<"C","o","l","o","r">>, <<"W","e","i","g","h","t">>, <<"D","i","m","e","n","s","i","o","n","s">>, <<"R","e","l","e","a","s","e"," ","D","a","t","e">>, <<"S","u","p","p","l","i","e","r">>, <<"W","a","r","e","h","o","u","s","e">>>>
orderBase == <<<<"O","r","d","e","r"," ","I","D">>, <<"C","u","s","t","o","m","e","r">>, <<"P","r","o","d","u","c","t">>, <<"Q","u","a","n","t","i","t","y">>, <<"P","r","i","c","e">>, <<"D","a","t","e">>>>
orderExtras ==
  <<<<"S","t","a","t","u","s">>, <<"S","h","i","p","p","i","n","g"," ","A","d","d","r","e","s","s">>, <<"P","a","y","m","e","n","t"," ","M","e","t","h","o","d">>, <<"T","r","a","c","k","i","n","g"," ","N","o">>, <<"S","a","l","e","s"," ","R","e","p">>, <<"D","i","s","c","o","u","n","t">>, <<"T","a","x">>, <<"T","o","t","a","l">>>>
perfBase ==
  <<<<"A","p","p","l","i","c","a","t","i","o","n">>, <<"H","o","s","t","n","a","m","e">>, <<"M","e","t","h","o","d">>, <<"S","t","a","r","t"," ","T","i","m","e">>, <<"R","e","s","p","o","n","s","e"," ","T","i","m","e"," ","(","m","s",")">>, <<"L","o","a","d"," ","T","i","m","e"," ","(","m","s",")">>, <<"D","o","w","n","t","i","m","e"," ","(","m","i","n",")">>, <<"S","t","a","t","u","s">>>>
perfExtras ==
  <<<<"R","e","g","i","o","n">>, <<"S","L","A"," ","(","%",")">>, <<"E","r","r","o","r"," ","R","a","t","e"," ","(","%",")">>, <<"C","P","U"," ","(","%",")">>, <<"M","e","m","o","r","y"," ","(","%",")">>, <<"D","i","s","k"," ","(","%",")">>, <<"E","n","d","p","o","i","n","t">>, <<"E","n","v">>>>

\* template with the product keyword tested first
templateProductFirst(promptLower) ==
  IF includes(promptLower, <<"p","r","o","d","u","c","t">>) THEN productBase \o productExtras
  ELSE IF includes(promptLower, <<"u","s","e","r">>) \/ includes(promptLower, <<"m","a","n","a","g","e","m","e","n","t">>)
  THEN userBase \o userExtras
  ELSE IF includes(promptLower, <<"o","r","d","e","r">>) \/ includes(promptLower, <<"s","a","l","e","s">>)
  THEN orderBase \o orderExtras
  ELSE IF \/ includes(promptLower, <<"p","e","r","f","o","r","m","a","n","c","e">>)
          \/ includes(promptLower, <<"d","o","w","n","t","i","m","e">>)
          \/ includes(promptLower, <<"u","p","t","i","m","e">>)
  THEN perfBase \o perfExtras
  ELSE <<>>

\* the template chosen from the keywords of the lower-cased prompt
template(promptLower) ==
  IF includes(promptLower, <<"u","s","e","r">>) \/ includes(promptLower, <<"m","a","n","a","g","e","m","e","n","t">>)
  THEN userBase \o userExtras
  ELSE IF includes(promptLower, <<"p","r","o","d","u","c","t">>) THEN productBase \o productExtras
  ELSE IF includes(promptLower, <<"o","r","d","e","r">>) \/ includes(promptLower, <<"s","a","l","e","s">>)
  THEN orderBase \o orderExtras
  ELSE IF \/ includes(promptLower, <<"p","e","r","f","o","r","m","a","n","c","e">>)
          \/ includes(promptLower, <<"d","o","w","n","t","i","m","e">>)
          \/ includes(promptLower, <<"u","p","t","i","m","e">>)
  THEN perfBase \o perfExtras
  ELSE <<>>

proposed(prompt) == template(toLowerCase(prompt))

\* String(n) of an integer n >= 0
RECURSIVE NatString(_)
NatString(n) ==
  IF n < 10 THEN <<<<"0","1","2","3","4","5","6","7","8","9">>[n + 1]>>
  ELSE NatString(n \div 10) \o <<<<"0","1","2","3","4","5","6","7","8","9">>[(n % 10) + 1]>>

\* while (headers.length < cols) headers.push(`Column ${headers.length + 1}`)
RECURSIVE padHeaders(_, _)
padHeaders(headers, cols) ==
  IF Len(headers) < cols
  THEN padHeaders(Append(headers, <<"C","o","l","u","m","n"," ">> \o NatString(Len(headers) + 1)), cols)
  ELSE headers

\* "Trim or pad to exactly cols"
trimOrPad(headers, cols) ==
  IF Len(headers) >= cols THEN SubSeq(headers, 1, cols) ELSE padHeaders(headers, cols)

\* the headers the header fallback produces
fallbackHeaders(prompt, cols) == trimOrPad(proposed(prompt), cols)

\* headers after the header fallback (if (headers.length !== cols) ...)
finalHeaders(headers, prompt, cols) ==
  IF Len(headers) # cols THEN fallbackHeaders(prompt, cols) ELSE headers

\* ------------------------------------------------------------------------
\* /generateTable: row fallback
\*   Math.random() is a multiple of 1/RandDen read from a tape of draws, the
\*   d-th draw being rng.tape[d % Len(rng.tape) + 1]; Date.now() is rng.sec
\*   seconds and rng.ms milliseconds after the epoch.
\* ------------------------------------------------------------------------
firstNames ==
  <<<<"L","i","a","m">>, <<"N","o","a","h">>, <<"O","l","i","v","e","r">>, <<"E","l","i","j","a","h">>, <<"J","a","m","e","s">>,
    <<"W","i","l","l","i","a","m">>, <<"B","e","n","j","a","m","i","n">>, <<"L","u","c","a","s">>, <<"H","e","n","r","y">>, <<"A","l","e","x","a","n","d","e","r">>,
    <<"E","m","m","a">>, <<"O","l","i","v","i","a">>, <<"A","v","a">>, <<"I","s","a","b","e","l","l","a">>, <<"S","o","p","h","i","a">>,
    <<"M","i","a">>, <<"C","h","a","r","l","o","t","t","e">>, <<"A","m","e","l","i","a">>, <<"H","a","r","p","e","r">>, <<"E","v","e","l","y","n">>>>
lastNames ==
  <<<<"S","m","i","t","h">>, <<"J","o","h","n","s","o","n">>, <<"W","i","l","l","i","a","m","s">>, <<"B","r","o","w","n">>, <<"J","o","n","e","s">>,
    <<"G","a","r","c","i","a">>, <<"M","i","l","l","e","r">>, <<"D","a","v","i","s">>, <<"R","o","d","r","i","g","u","e","z">>, <<"M","a","r","t","i","n","e","z">>,
    <<"H","e","r","n","a","n","d","e","z">>, <<"L","o","p","e","z">>, <<"G","o","n","z","a","l","e","z">>, <<"W","i","l","s","o","n">>, <<"A","n","d","e","r","s","o","n">>,
    <<"T","h","o","m","a","s">>, <<"T","a","y","l","o","r">>, <<"M","o","o","r","e">>, <<"J","a","c","k","s","o","n">>, <<"M","a","r","t","i","n">>>>
roles == <<<<"A","d","m","i","n">>, <<"M","a","n","a","g","e","r">>, <<"E","d","i","t","o","r">>, <<"V","i","e","w","e","r">>, <<"A","n","a","l","y","s","t">>, <<"D","e","v","e","l","o","p","e","r">>, <<"D","e","s","i","g","n","e","r">>, <<"S","u","p","p","o","r","t">>>>
departments ==
  <<<<"E","n","g","i","n","e","e","r","i","n","g">>, <<"S","a","l","e","s">>, <<"M","a","r","k","e","t","i","n","g">>, <<"F","i","n","a","n","c","e">>, <<"H","R">>, <<"O","p","e","r","a","t","i","o","n","s">>, <<"C","u","s","t","o","m","e","r"," ","S","u","c","c","e","s","s">>, <<"I","T">>>>
cities == <<<<"N","e","w"," ","Y","o","r","k">>, <<"S","a","n"," ","F","r","a","n","c","i","s","c","o">>, <<"L","o","n","d","o","n">>, <<"B","e","r","l","i","n">>, <<"P","a","r","i","s">>, <<"T","o","r","o","n","t","o">>, <<"S","y","d","n","e","y">>, <<"T","o","k","y","o">>>>
httpMethods == <<<<"G","E","T">>, <<"P","O","S","T">>, <<"P","U","T">>, <<"D","E","L","E","T","E">>, <<"P","A","T","C","H">>>>
regions == <<<<"u","s","-","e","a","s","t","-","1">>, <<"u","s","-","w","e","s","t","-","2">>, <<"e","u","-","c","e","n","t","r","a","l","-","1">>, <<"a","p","-","s","o","u","t","h","-","1">>>>
envs == <<<<"p","r","o","d">>, <<"s","t","a","g","i","n","g">>, <<"d","e","v">>>>

\* numerator of the d-th value of Math.random()
Random(rng, d) == rng.tape[(d % Len(rng.tape)) + 1]

\* Math.floor(Math.random() * n)
RandomBelow(rng, d, n) == (Random(rng, d) * n) \div RandDen

rand(arr, rng, d) == arr[RandomBelow(rng, d, Len(arr)) + 1]

randomName(rng, d) == rand(firstNames, rng, d) \o <<" ">> \o rand(lastNames, rng, d + 1)

IsLowerLetter(c) == \E k \in 1..26 : LowerCase[k] = c

\* name.toLowerCase().replace(/[^a-z]+/g,'').slice(0,12)
usernameFrom(name) == slice(Filter(IsLowerLetter, toLowerCase(name)), 12)

emailFrom(name, i) == usernameFrom(name) \o NatString(i + 1) \o <<"@","e","x","a","m","p","l","e",".","c","o","m">>

phone(rng, d) ==
  <<"+","1","-">> \o NatString(200 + RandomBelow(rng, d, 700)) \o <<"-">>
  \o NatString(200 + RandomBelow(rng, d + 1, 700)) \o <<"-">>
  \o NatString(1000 + RandomBelow(rng, d + 2, 9000))

id(i) == <<"U","S","R","-">> \o NatString(1000 + i)

Pad2(n) == IF n < 10 THEN <<"0">> \o NatString(n) ELSE NatString(n)

Pad4(n) ==
  IF n < 10 THEN <<"0","0","0">> \o NatString(n)
  ELSE IF n < 100 THEN <<"0","0">> \o NatString(n)
  ELSE IF n < 1000 THEN <<"0">> \o NatString(n)
  ELSE NatString(n)

\* the UTC calendar date, YYYY-MM-DD, of the day `days` days after the epoch
CivilDate(year, month, day) == Pad4(year) \o <<"-">> \o Pad2(month) \o <<"-">> \o Pad2(day)

\* the date of day `day` of month `month` of the year starting in March of
\* year yoe of the 400-year era
DateOfMonth(era, yoe, month, day) ==
  CivilDate(yoe + era * 400 + (IF month <= 2 THEN 1 ELSE 0), month, day)

\* mp is the month counted from March, doy the day counted from 1 March
DateOfMarchMonth(era, yoe, doy, mp) ==
  DateOfMonth(era, yoe, IF mp < 10 THEN mp + 3 ELSE mp - 9, doy - (153 * mp + 2) \div 5 + 1)

DateOfYear(era, yoe, doy) == DateOfMarchMonth(era, yoe, doy, (5 * doy + 2) \div 153)

DateOfEraYear(era, doe, yoe) ==
  DateOfYear(era, yoe, doe - (365 * yoe + yoe \div 4 - yoe \div 100))

\* doe is the day of the era
DateOfEra(era, doe) ==
  DateOfEraYear(era, doe, (doe - doe \div 1460 + doe \div 36524 - doe \div 146096) \div 365)

\* z is the day counted from 1 March of year 0
DateOfShifted(z, era) == DateOfEra(era, z - era * 146097)

IsoDate(days) == DateOfShifted(days + 719468, (days + 719468) \div 146097)

\* the whole seconds since the epoch of
\* Date.now() - Math.floor(Math.random() * 1000 * 60 * 60 * 24 * days)
\* span / RandDen seconds before Date.now(), in whole seconds
SecondsBefore(rng, span) ==
  rng.sec - span \div RandDen
  - (IF rng.ms < ((span % RandDen) * 1000) \div RandDen THEN 1 ELSE 0)

SecondsAgo(rng, d, days) == SecondsBefore(rng, Random(rng, d) * 60 * 60 * 24 * days)

\* d.toISOString().slice(0,10)
dateRecent(rng, d) == IsoDate(SecondsAgo(rng, d, 90) \div 86400)

\* d.toISOString().replace('T',' ').slice(0,19)
\* HH:MM:SS of the second sod of a day
Clock(sod) ==
  Pad2(sod \div 3600) \o <<":">> \o Pad2((sod % 3600) \div 60) \o <<":">> \o Pad2(sod % 60)

\* YYYY-MM-DD HH:MM:SS of t seconds after the epoch
DateTime(t) == IsoDate(t \div 86400) \o <<" ">> \o Clock(t % 86400)

timeOfDay(rng, d) == DateTime(SecondsAgo(rng, d, 7))

hostname(i) == <<"h","o","s","t">> \o NatString(i + 1) \o <<".","e","x","a","m","p","l","e",".","c","o","m">>

endpoint(i) == <<"/","a","p","i","/","v">> \o NatString(1 + (i % 3)) \o <<"/","r","e","s","o","u","r","c","e","/">> \o NatString(100 + i)

\* (min + Math.random()*(max-min)).toFixed(1), min and max given in hundredths
\* the decimal numeral of tenths / 10
Tenths(tenths) == NatString(tenths \div 10) \o <<".">> \o NatString(tenths % 10)

\* num / (100 * RandDen) rounded to one decimal
toFixed1(num) == Tenths((2 * num + 10 * RandDen) \div (20 * RandDen))

pct(min, max, rng, d) == toFixed1(min * RandDen + Random(rng, d) * (max - min))

\* Math.floor(min + Math.random()*(max-min+1))
int(min, max, rng, d) == min + (Random(rng, d) * (max - min + 1)) \div RandDen

Drawn(v, n) == [n |-> n, v |-> v]

\* the branch of the if / else-if chain of the row fallback taken for the
\* lower-cased header h: the name of the first condition that holds
Rule(h) ==
  IF \/ includes(h, <<"u","s","e","r"," ","i","d">>) \/ h = <<"i","d">> \/ h = <<"u","s","e","r","i","d">>
     \/ (includes(h, <<"i","d">>) /\ ~includes(h, <<"o","r","d","e","r">>) /\ ~includes(h, <<"p","r","o","d","u","c","t">>))
  THEN "id"
  ELSE IF h = <<"n","a","m","e">> \/ includes(h, <<"f","u","l","l"," ","n","a","m","e">>) THEN "name"
  ELSE IF includes(h, <<"u","s","e","r","n","a","m","e">>) THEN "username"
  ELSE IF includes(h, <<"e","m","a","i","l">>) THEN "email"
  ELSE IF includes(h, <<"r","o","l","e">>) THEN "role"
  ELSE IF includes(h, <<"d","e","p","a","r","t","m","e","n","t">>) THEN "department"
  ELSE IF includes(h, <<"s","t","a","t","u","s">>) /\ ~(includes(h, <<"h","t","t","p">>) \/ includes(h, <<"c","o","d","e">>))
  THEN "status"
  ELSE IF includes(h, <<"p","h","o","n","e">>) THEN "phone"
  ELSE IF includes(h, <<"l","o","c","a","t","i","o","n">>) \/ includes(h, <<"c","i","t","y">>) THEN "city"
  ELSE IF includes(h, <<"m","a","n","a","g","e","r">>) THEN "manager"
  ELSE IF includes(h, <<"l","a","s","t"," ","l","o","g","i","n">>) THEN "last login"
  ELSE IF includes(h, <<"c","r","e","a","t","e","d">>) THEN "created"
  ELSE IF includes(h, <<"u","p","d","a","t","e","d">>) THEN "updated"
  ELSE IF includes(h, <<"a","p","p","l","i","c","a","t","i","o","n">>) THEN "application"
  ELSE IF includes(h, <<"h","o","s","t","n","a","m","e">>) THEN "hostname"
  ELSE IF includes(h, <<"m","e","t","h","o","d">>) THEN "method"
  ELSE IF includes(h, <<"s","t","a","r","t"," ","t","i","m","e">>) THEN "start time"
  ELSE IF includes(h, <<"r","e","s","p","o","n","s","e"," ","t","i","m","e">>) THEN "response time"
  ELSE IF includes(h, <<"l","o","a","d"," ","t","i","m","e">>) THEN "load time"
  ELSE IF includes(h, <<"d","o","w","n","t","i","m","e">>) THEN "downtime"
  ELSE IF includes(h, <<"s","l","a">>) THEN "sla"
  ELSE IF includes(h, <<"e","r","r","o","r"," ","r","a","t","e">>) THEN "error rate"
  ELSE IF includes(h, <<"c","p","u">>) THEN "cpu"
  ELSE IF includes(h, <<"m","e","m","o","r","y">>) THEN "memory"
  ELSE IF includes(h, <<"d","i","s","k">>) THEN "disk"
  ELSE IF includes(h, <<"e","n","d","p","o","i","n","t">>) THEN "endpoint"
  ELSE IF includes(h, <<"e","n","v">>) THEN "env"
  ELSE IF includes(h, <<"r","e","g","i","o","n">>) THEN "region"
  ELSE IF h = <<"s","t","a","t","u","s">> THEN "h === 'status'"
  ELSE "else"

\* what the branch `rule` pushes for column c (0-based) of row r (0-based),
\* and the number of draws of Math.random() it makes
Cell(rule, r, c, name, rng, d) ==
  CASE rule = "id" -> Drawn(id(r), 0)
    [] rule = "name" -> Drawn(name, 0)
    [] rule = "username" -> Drawn(usernameFrom(name), 0)
    [] rule = "email" -> Drawn(emailFrom(name, r), 0)
    [] rule = "role" -> Drawn(rand(roles, rng, d), 1)
    [] rule = "department" -> Drawn(rand(departments, rng, d), 1)
    [] rule = "status" -> Drawn(IF r % 2 = 0 THEN <<"A","c","t","i","v","e">> ELSE <<"I","n","a","c","t","i","v","e">>, 0)
    [] rule = "phone" -> Drawn(phone(rng, d), 3)
    [] rule = "city" -> Drawn(rand(cities, rng, d), 1)
    [] rule = "manager" -> Drawn(randomName(rng, d), 2)
    [] rule \in {"last login", "created", "updated"} -> Drawn(dateRecent(rng, d), 1)
    [] rule = "application" -> Drawn(<<"A","p","p","l","i","c","a","t","i","o","n"," ">> \o NatString(r + 1), 0)
    [] rule = "hostname" -> Drawn(hostname(r), 0)
    [] rule = "method" -> Drawn(rand(httpMethods, rng, d), 1)
    [] rule = "start time" -> Drawn(timeOfDay(rng, d), 1)
    [] rule = "response time" -> Drawn(NatString(int(50, 1200, rng, d)), 1)
    [] rule = "load time" -> Drawn(NatString(int(200, 5000, rng, d)), 1)
    [] rule = "downtime" -> Drawn(NatString(int(0, 120, rng, d)), 1)
    [] rule = "sla" -> Drawn(pct(9500, 9999, rng, d), 1)
    [] rule = "error rate" -> Drawn(pct(0, 500, rng, d), 1)
    [] rule \in {"cpu", "memory", "disk"} -> Drawn(pct(500, 9500, rng, d), 1)
    [] rule = "endpoint" -> Drawn(endpoint(r), 0)
    [] rule = "env" -> Drawn(rand(envs, rng, d), 1)
    [] rule = "region" -> Drawn(rand(regions, rng, d), 1)
    [] rule = "h === 'status'" ->
         Drawn(IF int(0, 1, rng, d) # 0 THEN <<"U","p">> ELSE <<"D","o","w","n">>, 1)
    [] OTHER -> Drawn(<<"V","a","l","u","e"," ">> \o NatString(r + 1) \o <<"-">> \o NatString(c + 1), 0)

\* the branch taken for each column: (headers[c] || '').toLowerCase() decides
\* it, the same for every row
Rules(headers, cols) ==
  [n \in 1..cols |-> Rule(toLowerCase(IF n <= Len(headers) THEN headers[n] ELSE <<>>))]

\* for (let c = 0; c < cols; c++) ...: the row built from column c on
RECURSIVE fallbackCells(_, _, _, _, _, _, _, _)
\* row.push(cell.v), then the columns after c
pushCell(rules, r, c, cols, name, rng, d, row, cell) ==
  fallbackCells(rules, r, c + 1, cols, name, rng, d + cell.n, Append(row, cell.v))

fallbackCells(rules, r, c, cols, name, rng, d, row) ==
  IF c >= cols THEN Drawn(row, d)
  ELSE pushCell(rules, r, c, cols, name, rng, d, row, Cell(rules[c + 1], r, c, name, rng, d))

\* Array.from({ length: rows }, (_, r) => ...): the rows built from row r on
RECURSIVE fallbackRows(_, _, _, _, _, _, _)
\* the row built for index r, then the rows after it
pushRow(rules, r, rows, cols, rng, acc, row) ==
  fallbackRows(rules, r + 1, rows, cols, rng, row.n, Append(acc, row.v))

fallbackRows(rules, r, rows, cols, rng, d, acc) ==
  IF r >= rows THEN acc
  ELSE pushRow(rules, r, rows, cols, rng, acc,
               fallbackCells(rules, r, 0, cols, randomName(rng, d), rng, d + 2, <<>>))

\* a row fallback that keeps the parsed rows and synthesizes the missing ones
finalRowsCompleting(bodyRows, rules, rows, cols, rng) ==
  IF Len(bodyRows) # rows
  THEN bodyRows \o fallbackRows(rules, Len(bodyRows), rows, cols, rng, 0, <<>>)
  ELSE bodyRows

\* bodyRows after the row fallback (if (bodyRows.length !== rows) ...)
finalRows(bodyRows, rules, rows, cols, rng) ==
  IF Len(bodyRows) # rows THEN fallbackRows(rules, 0, rows, cols, rng, 0, <<>>)
  ELSE bodyRows

\* ------------------------------------------------------------------------
\* Upstream replies and the responses of the handlers
\* ------------------------------------------------------------------------
\* JavaScript truthiness of a value
Truthy(v) ==
  CASE v.t = "str" -> Len(v.s) > 0
    [] v.t = "num" -> v.s # <<"0">>
    [] v.t = "lit" -> v.s = <<"t","r","u","e">>
    [] v.t = "undefined" -> FALSE
    [] OTHER -> TRUE

\* the parts of the response envelope the handlers read:
\*   message: choices[0].message exists, content: choices[0].message.content,
\*   generated_text: results[0].generated_text, output: output
Envelope(message, content, generated_text, output) ==
  [message |-> message, content |-> content,
   generated_text |-> generated_text, output |-> output]

NoEnvelope == Envelope(FALSE, Undefined, Undefined, Undefined)

\* what the awaited fetch gives: kind "reject" when the promise rejects; else
\* the status, and whether the body is an object, the JSON null, invalid JSON
\* or "unreadable" (its stream fails while it is read)
Reply(kind, status, json, data, token) ==
  [kind |-> kind, status |-> status, json |-> json, data |-> data, token |-> token]

NoReply == Reply("none", 0, "none", NoEnvelope, "")

\* res.ok
ok(res) == res.status >= 200 /\ res.status <= 299

\* an Error: its message is `what`, followed by the upstream status when
\* status is not 0
Error(what, status) == [status |-> status, what |-> what]

NoError == Error("", 0)

Response(status, body, token, data, headers, rows, error) ==
  [rows |-> rows, headers |-> headers, status |-> status, data |-> data,
   body |-> body, error |-> error, access_token |-> token]

\* res.status(500).json({ error: error.message })
ErrorResponse(error) == Response(500, "error", "", <<>>, <<>>, <<>>, error)

\* the error a failed `await fetch(...)`, `await res.text()` or
\* `await res.json()` throws, if any
FetchError(reply) ==
  IF reply.kind = "reject" THEN Error("FetchError", 0)
  ELSE IF reply.json = "unreadable" THEN Error("Invalid response body", 0)
  ELSE IF reply.json = "invalid" THEN Error("invalid json response body", 0)
  ELSE NoError

\* throw new Error(`watsonx error: ${genRes.status} ${errorText}`) after
\* `await genRes.text()`, which throws itself when the body is unreadable
watsonxError(genRes) ==
  IF genRes.json = "unreadable" THEN FetchError(genRes)
  ELSE Error("watsonx error: ", genRes.status)

\* ------------------------------------------------------------------------
\* POST /token
\* ------------------------------------------------------------------------
tokenResponse(tokenRes) ==
  IF tokenRes.kind = "reject" THEN ErrorResponse(FetchError(tokenRes))
  ELSE IF ~ok(tokenRes) THEN ErrorResponse(Error("IAM token request failed: ", tokenRes.status))
  ELSE IF tokenRes.json \in {"invalid", "unreadable"} THEN ErrorResponse(FetchError(tokenRes))
  ELSE IF tokenRes.json = "null" THEN ErrorResponse(Error("TypeError", 0))
  ELSE Response(200, "access_token", tokenRes.token, <<>>, <<>>, <<>>, NoError)

\* ------------------------------------------------------------------------
\* POST /generate
\* ------------------------------------------------------------------------
\* "Ensure the response is correctly extracted"
listText(genData) ==
  IF genData.message THEN genData.content
  ELSE IF Truthy(genData.generated_text) THEN genData.generated_text
  ELSE Str(String(IF Truthy(genData.output) THEN genData.output ELSE Str(<<>>)))

\* for (let i = 0; i < needed; i++) list.push(list[i % Math.max(1, list.length)] || '')
\* padding that always pushes the empty string
ItemOrEmpty(list, k) == <<>>

\* list[k] || ''
ItemOr(list, k) == IF k + 1 <= Len(list) THEN list[k + 1] ELSE <<>>

RECURSIVE pad(_, _, _)
pad(list, i, needed) ==
  IF i >= needed THEN list
  ELSE pad(Append(list, ItemOr(list, i % (IF Len(list) > 1 THEN Len(list) ELSE 1))),
           i + 1, needed)

\* resize without the final list.slice(0, count)
resizeNoSlice(list, count) ==
  IF Len(list) < count THEN pad(list, 0, count - Len(list)) ELSE list

\* "Ensure we have at least 'count' values by cycling", then list.slice(0, count)
resize(list, count) ==
  slice(IF Len(list) < count THEN pad(list, 0, count - Len(list)) ELSE list, count)

\* the response for the extracted text: normalizeToList returns [] for a
\* falsy text and calls text.trim() on any other
listResponse(text, count) ==
  IF ~Truthy(text)
  THEN Response(200, "data", "", resize(<<>>, count), <<>>, <<>>, NoError)
  ELSE IF text.t # "str"
  THEN ErrorResponse(Error("text.trim is not a function", 0))
  ELSE Response(200, "data", "", resize(normalizeToList(text.s), count),
                <<>>, <<>>, NoError)

generateResponse(genRes, count) ==
  IF genRes.kind = "reject" THEN ErrorResponse(FetchError(genRes))
  ELSE IF ~ok(genRes) THEN ErrorResponse(watsonxError(genRes))
  ELSE IF genRes.json \in {"invalid", "unreadable"} THEN ErrorResponse(FetchError(genRes))
  ELSE IF genRes.json = "null" THEN ErrorResponse(Error("TypeError", 0))
  ELSE listResponse(listText(genRes.data), count)

\* ------------------------------------------------------------------------
\* POST /generateTable
\* ------------------------------------------------------------------------
\* "New extraction logic for the chat endpoint"
HasTableText(genData) == Truthy(genData.generated_text) \/ genData.message

tableText(genData) ==
  IF Truthy(genData.generated_text) THEN genData.generated_text ELSE genData.content

\* the error response sent before the structured parse, if any
tableError(genRes) ==
  IF genRes.kind = "reject" THEN ErrorResponse(FetchError(genRes))
  ELSE IF ~ok(genRes) THEN ErrorResponse(watsonxError(genRes))
  ELSE IF genRes.json \in {"invalid", "unreadable"} THEN ErrorResponse(FetchError(genRes))
  ELSE IF genRes.json = "null" THEN ErrorResponse(Error("TypeError", 0))
  ELSE IF ~HasTableText(genRes.data)
  THEN ErrorResponse(Error("Unexpected response structure from watsonx.ai", 0))
  ELSE Response(200, "table", "", <<>>, <<>>, <<>>, NoError)

\* res.json({ headers, rows: bodyRows }) after the row fallback
tableResponse(headers, bodyRows, rules, rows, cols, rng) ==
  Response(200, "table", "", <<>>, headers,
           finalRows(bodyRows, rules, rows, cols, rng), NoError)

\* ------------------------------------------------------------------------
\* POST /analytics
\* ------------------------------------------------------------------------
\* analyticsResponse with the acknowledgement sent only after a forward that
\* succeeded
analyticsResponseStrict(ga4Res) ==
  IF ga4Res.kind = "response" /\ ~ok(ga4Res)
  THEN ErrorResponse(Error("GA4 responded with status ", ga4Res.status))
  ELSE Response(204, "", "", <<>>, <<>>, <<>>, NoError)

\* the forward is answered by ga4Res or throws; the response is the one that
\* `finally` sends
analyticsResponse(ga4Res) == Response(204, "", "", <<>>, <<>>, <<>>, NoError)

\* ------------------------------------------------------------------------
\* Inputs: request bodies and upstream replies
\* ------------------------------------------------------------------------
RECURSIVE SeqsUpTo(_, _)
SeqsUpTo(S, n) ==
  IF n = 0 THEN {<<>>}
  ELSE LET shorter == SeqsUpTo(S, n - 1)
       IN  shorter \cup {Append(q, c) : q \in {x \in shorter : Len(x) = n - 1}, c \in S}

\* every text of at most MaxLen characters over the characters that steer
\* normalizeToList
ShortTexts == SeqsUpTo({"[", "]", "'", "\"", ",", "\n", " ", "a"}, MaxLen)

\* JSON.stringify of a string
RECURSIVE Quoted(_)
Quoted(x) ==
  IF Len(x) = 0 THEN <<>>
  ELSE (CASE x[1] = "\"" -> <<"\\","\"">>
          [] x[1] = "\\" -> <<"\\","\\">>
          [] x[1] = "\n" -> <<"\\","n">>
          [] OTHER -> <<x[1]>>) \o Quoted(Tail(x))

RECURSIVE Joined(_, _)
Joined(items, sep) ==
  IF Len(items) = 0 THEN <<>>
  ELSE <<"\"">> \o Quoted(items[1]) \o <<"\"">>
       \o (IF Len(items) > 1 THEN sep \o Joined(Tail(items), sep) ELSE <<>>)

\* a well-formed JSON array text of the strings `items`
ArrayText(items, sep) == <<"[">> \o Joined(items, sep) \o <<"]">>

Items == {<<"A","c","m","e">>, <<"G","l","o","b","e","x"," ","I","n","c">>, <<"x">>, <<" ","I","n","i","t","e","c","h">>, <<>>, <<",","'","a","'">>}

Injective(q) == \A i, j \in 1..Len(q) : q[i] = q[j] => i = j

\* the arrays of pairwise-distinct items and their JSON texts
ArrayCases ==
  {[text |-> ArrayText(q, sep), items |-> q] :
     q \in {x \in SeqsUpTo(Items, MaxCount) : Injective(x)}, sep \in {<<",">>, <<","," ">>}}

ArrayTexts == {c.text : c \in ArrayCases}

SampleListTexts ==
  {<<"[","'","A","c","m","e"," ","C","o","r","p","'",","," ","'","G","l","o","b","e","x","'",","," ","'","I","n","i","t","e","c","h","'","]">>, <<"[","'","A","c","m","e"," ","C","o","r","p","'",",","'","G","l","o","b","e","x","'",",","'","I","n","i","t","e","c","h","'","]">>,
   <<"[","'","A","c","m","e"," ","C","o","r","p","'",","," ","'","G","l","o","b","e","x","'","]">>, <<"a",","," ","b",","," ","c">>, <<"\"","a","\"",","," ","'","b","'",","," ","c">>,
   <<"1","."," ","A","l","p","h","a","\n","2","."," ","B","e","t","a","\n","-"," ","G","a","m","m","a","\n","\n","*"," ","\"","D","e","l","t","a","\"">>, <<"H","e","r","e"," ","y","o","u"," ","g","o",":"," ","[","\"","a","\"",","," ","\"","b","\"","]">>,
   <<"[","1",","," ","t","r","u","e",","," ","n","u","l","l",","," ","[","\"","x","\"",","," ","n","u","l","l",","," ","\"","y","\"","]",","," ","{","\"","k","\"",":"," ","\"","v","\"","}","]">>, <<"[","\"","a","\"",","," ","\"","b","\"","]"," ","a","n","d"," ","m","o","r","e">>,
   <<"[","\"","s","a","y"," ","\\","\"","h","i","\\","\"","\"",","," ","\"","x","\\","n","y","\"",","," ","\"","c",":","\\","\\","d","\"","]">>}

ListTexts == ShortTexts \cup ArrayTexts \cup SampleListTexts

TableTexts ==
  {<<"{","\"","h","e","a","d","e","r","s","\"",":"," ","[","\"","N","a","m","e","\"",","," ","\"","A","g","e","\"","]",","," ","\"","r","o","w","s","\"",":"," ","[","[","\"","A","l","\"",","," ","\"","3","\"","]",","," ","[","\"","B","o","\"",","," ","\"","4","\"","]","]","}">>,
   <<"{","\"","h","e","a","d","e","r","s","\"",":"," ","[","\"","N","a","m","e","\"",","," ","\"","A","g","e","\"","]",","," ","\"","r","o","w","s","\"",":"," ","[","[","\"","A","l","\"",","," ","\"","3","\"","]","]","}">>,
   <<"{","\"","h","e","a","d","e","r","s","\"",":"," ","[","\"","N","a","m","e","\"","]",","," ","\"","r","o","w","s","\"",":"," ","[","[","\"","A","l","\"",","," ","\"","3","\"","]",","," ","[","\"","B","o","\"","]",","," ","[","]",","," ","\"","x","\"","]","}">>,
   <<"{","h","e","a","d","e","r","s",":"," ","[","'","S","t","a","t","u","s","'",","," ","'","A","g","e","'","]",","," ","r","o","w","s",":"," ","[","[","'","A","l","'",","," ","'","3","'","]",","," ","[","'","B","o","'",","," ","'","4","'","]",",","]",",","}">>,
   <<"GRAVE","GRAVE","GRAVE","j","s","o","n","\n","{","\"","h","e","a","d","e","r","s","\"",":"," ","[","\"","A","\"",","," ","\"","B","\"","]",","," ","\"","r","o","w","s","\"",":"," ","[","[","\"","1","\"",","," ","\"","2","\"","]","]","}","\n","GRAVE","GRAVE","GRAVE">>,
   <<"{","\"","h","e","a","d","e","r","s","\"",":"," ","[","\"","A","\"",","," ","\"","[","B","]","\"",","," ","\"","C","\"","]",","," ","\"","r","o","w","s","\"",":"," ","[","[","\"","k",":"," ","v","\"","]","]","}">>,
   <<"{","\"","h","e","a","d","e","r","s","\"",":"," ","[","]",","," ","\"","r","o","w","s","\"",":"," ","[","]","}">>,
   <<"S","o","r","r","y",","," ","I"," ","c","a","n","n","o","t"," ","d","o"," ","t","h","a","t",".">>, <<"[","\"","N","a","m","e","\"",","," ","\"","A","g","e","\"","]">>, <<>>}

Prompts ==
  {<<"u","s","e","r"," ","m","a","n","a","g","e","m","e","n","t"," ","s","y","s","t","e","m">>, <<"P","r","o","d","u","c","t"," ","m","a","n","a","g","e","m","e","n","t">>, <<"p","r","o","d","u","c","t"," ","c","a","t","a","l","o","g">>,
   <<"s","a","l","e","s"," ","o","r","d","e","r","s">>, <<"s","e","r","v","e","r"," ","u","p","t","i","m","e">>, <<"c","a","t","s">>}

\* column counts beyond the longest template, asked for with at most one row
WideCols == {15}

Statuses == {200, 401, 500, 503}

Failures ==
  {Reply("reject", 0, "none", NoEnvelope, "")}
  \cup {Reply("response", st, "object", NoEnvelope, "") : st \in Statuses \ {200}}
  \cup {Reply("response", 200, j, NoEnvelope, "") : j \in {"invalid", "null"}}
  \cup {Reply("response", st, "unreadable", NoEnvelope, "") : st \in {200, 500}}

TokenReplies ==
  Failures \cup {Reply("response", 200, "object", NoEnvelope, tok) : tok \in {"", "token"}}

\* the three envelope shapes carrying the text v
Chat(v) == Envelope(TRUE, v, Undefined, Undefined)
Legacy(v) == Envelope(FALSE, Undefined, v, Undefined)
Output(v) == Envelope(FALSE, Undefined, Undefined, v)

\* contents that are not text
NonTexts == {Undefined, Lit(<<"n","u","l","l">>), Num(<<"4","2">>), Num(<<"0">>), Arr(<<Str(<<"a">>)>>)}

OddEnvelopes ==
  {NoEnvelope, Envelope(TRUE, Str(<<"[","\"","a","\"","]">>), Str(<<"[","\"","b","\"","]">>), Str(<<"[","\"","c","\"","]">>)),
   Envelope(TRUE, Str(<<"[","\"","a","\"","]">>), Str(<<>>), Undefined)}
  \cup {Chat(v) : v \in NonTexts} \cup {Legacy(v) : v \in NonTexts}
  \cup {Output(v) : v \in NonTexts}

ThreeShapes(texts) ==
  {Chat(Str(t)) : t \in texts} \cup {Legacy(Str(t)) : t \in texts}
  \cup {Output(Str(t)) : t \in texts}

GenerateReplies ==
  Failures
  \cup {Reply("response", 200, "object", e, "") :
          e \in {Chat(Str(t)) : t \in ListTexts} \cup ThreeShapes(SampleListTexts)
                \cup OddEnvelopes}

GenerateTableReplies ==
  Failures
  \cup {Reply("response", 200, "object", e, "") :
          e \in {Chat(Str(t)) : t \in TableTexts}
                \cup ThreeShapes({<<"{","\"","h","e","a","d","e","r","s","\"",":"," ","[","\"","N","a","m","e","\"",","," ","\"","A","g","e","\"","]",","," ","\"","r","o","w","s","\"",":"," ","[","[","\"","A","l","\"",","," ","\"","3","\"","]","]","}">>})
                \cup OddEnvelopes}

AnalyticsReplies ==
  {Reply("reject", 0, "none", NoEnvelope, "")}
  \cup {Reply("response", st, "none", NoEnvelope, "") : st \in {204, 400, 500}}

\* the values of Math.random() and Date.now() seen by one request
Rngs ==
  {[tape |-> t, sec |-> 1762081200, ms |-> m] :
     t \in [1..2 -> 0..(RandDen - 1)], m \in {250}}

Body(prompt, count, rows, cols) ==
  [cols |-> cols, rows |-> rows, prompt |-> prompt, count |-> count]

\* ------------------------------------------------------------------------
\* The server
\* ------------------------------------------------------------------------
VARIABLES
  configured,  \* GA4_MEASUREMENT_ID and GA4_API_SECRET are both set
  route,       \* the route of the request being handled
  pc,          \* "idle", "fetch" (awaiting the upstream call) or "done"
  body,        \* req.body
  calls,       \* upstream calls made for the request
  reply,       \* what the upstream call gave
  responses    \* the responses sent for the request, in order

vars == <<configured, route, pc, body, calls, reply, responses>>

Init ==
  /\ configured \in BOOLEAN
  /\ route = "none"
  /\ pc = "idle"
  /\ body = Body(<<>>, 0, 0, 0)
  /\ calls = 0
  /\ reply = NoReply
  /\ responses = <<>>

\* no request is being handled
Idle == pc = "idle"

\* the handler of route r is at its `await fetch(...)`
Awaiting(r) == pc = "fetch" /\ route = r

\* a request arrives and its handler runs up to `await fetch(...)`
Receive(r, b) ==
  /\ Idle
  /\ route' = r
  /\ body' = b
  /\ pc' = "fetch"
  /\ calls' = 1
  /\ reply' = NoReply
  /\ responses' = <<>>
  /\ UNCHANGED configured

\* a request arrives without an endpoint: `endpoint.replace` throws and the
\* handler answers from its catch block before any upstream call
Refuse(r, b) ==
  /\ Idle
  /\ route' = r
  /\ body' = b
  /\ pc' = "done"
  /\ calls' = 0
  /\ reply' = NoReply
  /\ responses' = <<ErrorResponse(Error("TypeError", 0))>>
  /\ UNCHANGED configured

\* the awaited call gives genRes and the handler runs to its end
Respond(r, genRes, response) ==
  /\ Awaiting(r)
  /\ reply' = genRes
  /\ responses' = Append(responses, response)
  /\ pc' = "done"
  /\ UNCHANGED <<configured, route, body, calls>>

PostToken ==
  /\ Idle
  /\ Receive("/token", Body(<<>>, 0, 0, 0))

TokenReply ==
  /\ Awaiting("/token")
  /\ \E tokenRes \in TokenReplies : Respond("/token", tokenRes, tokenResponse(tokenRes))

PostGenerate ==
  /\ Idle
  /\ \E count \in 0..MaxCount : Receive("/generate", Body(<<>>, count, 0, 0))

PostGenerateNoEndpoint ==
  /\ Idle
  /\ \E count \in 0..MaxCount : Refuse("/generate", Body(<<>>, count, 0, 0))

GenerateReply ==
  /\ Awaiting("/generate")
  /\ \E genRes \in GenerateReplies :
       Respond("/generate", genRes, generateResponse(genRes, body.count))

PostGenerateTable ==
  /\ Idle
  /\ \E prompt \in Prompts :
       \/ \E rows \in 0..MaxRows, cols \in 0..MaxCols :
            Receive("/generateTable", Body(prompt, 0, rows, cols))
       \/ \E rows \in 0..1, cols \in WideCols :
            Receive("/generateTable", Body(prompt, 0, rows, cols))

PostGenerateTableNoEndpoint ==
  /\ Idle
  /\ \E prompt \in Prompts, rows \in 0..MaxRows, cols \in 0..MaxCols :
       Refuse("/generateTable", Body(prompt, 0, rows, cols))

\* the handler throws before the structured parse
GenerateTableFail ==
  /\ Awaiting("/generateTable")
  /\ \E genRes \in GenerateTableReplies :
       /\ tableError(genRes).body = "error"
       /\ Respond("/generateTable", genRes, tableError(genRes))

\* the handler parses the text and fills in what the parse did not give
GenerateTableReply ==
  /\ Awaiting("/generateTable")
  /\ \E genRes \in GenerateTableReplies :
       /\ tableError(genRes).body # "error"
       /\ LET parsed == parseTable(tableText(genRes.data), body.rows, body.cols)
              headers == finalHeaders(parsed.headers, body.prompt, body.cols)
              rules == Rules(headers, body.cols)
          IN  \E rng \in Rngs :
                Respond("/generateTable", genRes,
                        tableResponse(headers, parsed.bodyRows, rules,
                                      body.rows, body.cols, rng))

\* the collector is configured: the handler awaits the forward
PostAnalytics ==
  /\ configured
  /\ Receive("/analytics", Body(<<>>, 0, 0, 0))

\* the collector is not configured: the handler logs and acknowledges
PostAnalyticsDev ==
  /\ ~configured
  /\ Idle
  /\ route' = "/analytics"
  /\ body' = Body(<<>>, 0, 0, 0)
  /\ pc' = "done"
  /\ calls' = 0
  /\ reply' = NoReply
  /\ responses' = <<analyticsResponse(NoReply)>>
  /\ UNCHANGED configured

\* ga4Res.ok, a non-success status and a rejected fetch all reach `finally`
AnalyticsReply ==
  /\ Awaiting("/analytics")
  /\ \E ga4Res \in AnalyticsReplies :
       Respond("/analytics", ga4Res, analyticsResponse(ga4Res))

\* the response is sent: the request and all it held are discarded
Finish ==
  /\ pc = "done"
  /\ route' = "none"
  /\ pc' = "idle"
  /\ body' = Body(<<>>, 0, 0, 0)
  /\ calls' = 0
  /\ reply' = NoReply
  /\ responses' = <<>>
  /\ UNCHANGED configured

Next ==
  \/ PostToken
  \/ TokenReply
  \/ PostGenerate
  \/ PostGenerateNoEndpoint
  \/ GenerateReply
  \/ PostGenerateTable
  \/ PostGenerateTableNoEndpoint
  \/ GenerateTableFail
  \/ GenerateTableReply
  \/ PostAnalytics
  \/ PostAnalyticsDev
  \/ AnalyticsReply
  \/ Finish

Spec == Init /\ [][Next]_vars

\* ------------------------------------------------------------------------
\* Properties
\* ------------------------------------------------------------------------
\* the handler of route r has run to its end
Done(r) == route = r /\ pc = "done"

\* the upstream call gave a success status and a JSON object
Answered == reply.kind = "response" /\ ok(reply) /\ reply.json = "object"

\* the request to route r ended with a success response
Succeeded(r) == Done(r) /\ Len(responses) = 1 /\ responses[1].status = 200

\* the structured parse of the text of the reply in hand
Parsed == parseTable(tableText(reply.data), body.rows, body.cols)

\* the envelope has one of the three known shapes
Recognised(genData) ==
  genData.message \/ Truthy(genData.generated_text) \/ Truthy(genData.output)

\* C1: whatever the text, the data of a successful /generate response is a
\* list of exactly count items
C1_DataLengthIsCount ==
  Succeeded("/generate") => Len(responses[1].data) = body.count

\* a one-item text answered a request for three items
C1_PaddedToCount ==
  /\ Succeeded("/generate")
  /\ body.count = 3
  /\ reply.data = Chat(Str(<<"a">>))
  /\ responses[1].data = <<<<"a">>, <<"a">>, <<"a">>>>

\* C2: a successful /generateTable response has exactly cols headers and
\* exactly rows rows of exactly cols cells each
C2_TableShape ==
  Succeeded("/generateTable") =>
    /\ Len(responses[1].headers) = body.cols
    /\ Len(responses[1].rows) = body.rows
    /\ \A r \in 1..Len(responses[1].rows) : Len(responses[1].rows[r]) = body.cols

\* a parse that gave one header and ragged rows answered a request for a
\* table of two rows and two columns
C2_RaggedRowsFitted ==
  /\ Succeeded("/generateTable")
  /\ body.rows = 2
  /\ body.cols = 2
  /\ reply.data = Chat(Str(<<"{","\"","h","e","a","d","e","r","s","\"",":"," ","[","\"","N","a","m","e","\"","]",","," ","\"","r","o","w","s","\"",":"," ","[","[","\"","A","l","\"",","," ","\"","3","\"","]",","," ","[","\"","B","o","\"","]",","," ","[","]",","," ","\"","x","\"","]","}">>))
  /\ responses[1].rows = <<<<<<"A","l">>, <<"3">>>>, <<<<"B","o">>, <<>>>>>>

\* C3: /generateTable fails with the unexpected-response-structure error only
\* when the envelope has none of the three known shapes
C3_FailsOnlyOnUnknownShape ==
  (/\ Done("/generateTable")
   /\ Answered
   /\ Len(responses) = 1
   /\ responses[1].error.what = "Unexpected response structure from watsonx.ai")
  => ~Recognised(reply.data)

\* C4, for the chat envelope, which both handlers recognise: whatever its
\* content, /generate and /generateTable end with a success response
C4_NoErrorOnMalformedOutput ==
  (/\ Done("/generate") \/ Done("/generateTable")
   /\ Answered
   /\ reply.data.message
   /\ Len(responses) = 1)
  => responses[1].status = 200

\* C5: a request to /token, /generate or /generateTable makes at most one
\* upstream call and never has more than one response; once its handler has
\* run to its end it has exactly one, and after a non-success upstream status
\* that one is an error response whose message carries the upstream status
C5_OneCallOneResponse ==
  route \in {"/token", "/generate", "/generateTable"} =>
    /\ calls <= 1
    /\ Len(responses) <= 1
    /\ pc = "done" => Len(responses) = 1
    /\ (pc = "done" /\ reply.kind = "response" /\ ~ok(reply)) =>
         /\ responses[1].status = 500
         /\ responses[1].body = "error"
         /\ responses[1].error.status = reply.status

\* C6: a request to /analytics never has more than one response, and once its
\* handler has run to its end it has exactly the 204 acknowledgement
C6_AlwaysAcknowledged ==
  route = "/analytics" =>
    /\ Len(responses) <= 1
    /\ pc = "done" => responses = <<Response(204, "", "", <<>>, <<>>, <<>>, NoError)>>

\* the collector answered the forward with a non-success status
C6_CollectorFailed ==
  /\ Done("/analytics")
  /\ configured
  /\ reply.kind = "response"
  /\ reply.status = 500
  /\ Len(responses) = 1
  /\ responses[1].status = 204

\* C7: the text ['Acme Corp', 'Globex', 'Initech'] with count = 3 gives the
\* list "Acme Corp", "Globex", "Initech"
C7_SingleQuotedList ==
  (/\ Done("/generate")
   /\ Answered
   /\ reply.data = Chat(Str(<<"[","'","A","c","m","e"," ","C","o","r","p","'",","," ","'","G","l","o","b","e","x","'",","," ","'","I","n","i","t","e","c","h","'","]">>))
   /\ body.count = 3)
  => responses = <<Response(200, "data", "", <<<<"A","c","m","e"," ","C","o","r","p">>, <<"G","l","o","b","e","x">>, <<"I","n","i","t","e","c","h">>>>,
                            <<>>, <<>>, NoError)>>

\* the request was answered by the JSON text of an array of ArrayCases
ArraySent ==
  /\ Done("/generate")
  /\ Answered
  /\ reply.data.message
  /\ reply.data.content.t = "str"
  /\ reply.data.content.s \in ArrayTexts

\* the array sent is c, and no more items were asked for than it has
RoundTrip(c) == reply.data.content.s = c.text /\ body.count <= Len(c.items)

\* the request was answered with the first count items of the array c
FirstItems(c) ==
  /\ Len(responses) = 1
  /\ responses[1].status = 200
  /\ responses[1].data = SubSeq(c.items, 1, body.count)

\* C8 as stated: a well-formed JSON array text of N pairwise-distinct strings
\* gives, for count <= N, its first count strings unchanged
C8_RoundTripOfAnyStrings ==
  ArraySent => \A c \in ArrayCases : RoundTrip(c) => FirstItems(c)

\* a string that is not empty, neither starts nor ends with white space and
\* holds no single quote
Plain(x) ==
  /\ Len(x) > 0
  /\ ~IsSpace(x[1])
  /\ ~IsSpace(x[Len(x)])
  /\ \A i \in 1..Len(x) : x[i] # "'"

\* C8: a well-formed JSON array text of N pairwise-distinct strings, each of
\* them non-empty, without leading or trailing white space and without a
\* single quote, gives, for count <= N, its first count strings unchanged
C8_RoundTripOfPlainStrings ==
  ArraySent =>
    \A c \in ArrayCases :
      (RoundTrip(c) /\ \A i \in 1..Len(c.items) : Plain(c.items[i])) => FirstItems(c)

\* an array of three plain strings answered a request for two items
C8_TruncatedArray ==
  /\ ArraySent
  /\ RoundTrip([text |-> <<"[","\"","A","c","m","e","\"",","," ","\"","G","l","o","b","e","x"," ","I","n","c","\"",","," ","\"","x","\"","]">>,
                items |-> <<<<"A","c","m","e">>, <<"G","l","o","b","e","x"," ","I","n","c">>, <<"x">>>>])
  /\ body.count = 2
  /\ responses[1].data = <<<<"A","c","m","e">>, <<"G","l","o","b","e","x"," ","I","n","c">>>>

\* the response in hand was built by the row fallback
RowFallbackRan == Succeeded("/generateTable") /\ Len(Parsed.bodyRows) # body.rows

\* C9: in row fallback a column whose lower-cased header is exactly "status"
\* holds Up or Down, and a column whose header contains "status" with a
\* qualifier holds Active on even 0-based rows and Inactive on odd ones
C9_StatusColumns ==
  RowFallbackRan =>
    \A c \in 1..body.cols, r \in 1..body.rows :
      LET h == toLowerCase(responses[1].headers[c])
          cell == responses[1].rows[r][c]
      IN  /\ h = <<"s","t","a","t","u","s">> => cell \in {<<"U","p">>, <<"D","o","w","n">>}
          /\ (includes(h, <<"s","t","a","t","u","s">>) /\ h # <<"s","t","a","t","u","s">>) =>
               cell = (IF (r - 1) % 2 = 0 THEN <<"A","c","t","i","v","e">> ELSE <<"I","n","a","c","t","i","v","e">>)

\* the response in hand was built by the header fallback
HeaderFallbackRan == Succeeded("/generateTable") /\ Len(Parsed.headers) # body.cols

\* the keyword groups in the order they are tried, each with its template
KeywordGroups ==
  <<[template |-> userBase \o userExtras, keywords |-> {<<"u","s","e","r">>, <<"m","a","n","a","g","e","m","e","n","t">>}],
    [template |-> productBase \o productExtras, keywords |-> {<<"p","r","o","d","u","c","t">>}],
    [template |-> orderBase \o orderExtras, keywords |-> {<<"o","r","d","e","r">>, <<"s","a","l","e","s">>}],
    [template |-> perfBase \o perfExtras,
     keywords |-> {<<"p","e","r","f","o","r","m","a","n","c","e">>, <<"d","o","w","n","t","i","m","e">>, <<"u","p","t","i","m","e">>}]>>

\* the groups with a keyword that the lower-cased prompt contains
Matching(promptLower) ==
  {g \in 1..Len(KeywordGroups) :
     \E k \in KeywordGroups[g].keywords : includes(promptLower, k)}

\* the template of the first of the groups, empty when there is none
FirstOf(groups) ==
  IF groups = {} THEN <<>> ELSE KeywordGroups[Min(groups)].template

\* the template of the first matching group, empty when no group matches
FirstMatching(prompt) == FirstOf(Matching(toLowerCase(prompt)))

\* headers are the first cols entries of the template t, continued with the
\* labels Column N
TemplateThenLabels(headers, t, cols) ==
  /\ Len(headers) = cols
  /\ \A n \in 1..cols :
       headers[n] = (IF n <= Len(t) THEN t[n] ELSE <<"C","o","l","u","m","n"," ">> \o NatString(n))

\* C10: after header fallback the header at position N is the N-th entry of
\* the template of the first matching keyword group when the template has
\* one, and the label Column N otherwise, for every N from 1 to cols
C10_FallbackHeaders ==
  HeaderFallbackRan =>
    TemplateThenLabels(responses[1].headers, FirstMatching(body.prompt), body.cols)

\* a prompt with both product and management got the user template, padded
\* from its fourteen entries to fifteen columns
C10_UserTemplatePadded ==
  /\ HeaderFallbackRan
  /\ body.prompt = <<"P","r","o","d","u","c","t"," ","m","a","n","a","g","e","m","e","n","t">>
  /\ body.cols = 15
  /\ responses[1].headers[1] = <<"U","s","e","r"," ","I","D">>
  /\ responses[1].headers[14] = <<"C","i","t","y">>
  /\ responses[1].headers[15] = <<"C","o","l","u","m","n"," ","1","5">>

\* the list normalizeToList collected from the text of the reply in hand
Collected ==
  IF Truthy(listText(reply.data)) THEN normalizeToList(listText(reply.data).s)
  ELSE <<>>

\* out is collected resized to count: its first count items when it has that
\* many, else its cyclic repetition, else empty strings
ResizedCyclically(collected, count, out) ==
  /\ Len(out) = count
  /\ \A k \in 0..(count - 1) :
       out[k + 1] = (IF Len(collected) = 0 THEN <<>>
                     ELSE IF Len(collected) >= count THEN collected[k + 1]
                     ELSE collected[(k % Len(collected)) + 1])
  /\ (0 < Len(collected) /\ Len(collected) < count) =>
       \A k \in 1..count : out[k] # <<>>

\* C11: the data of a successful /generate response is the collected list
\* resized to count: entry k is collected[k mod n] when 0 < n < count, and
\* then no entry is empty; every entry is the empty string when n = 0; the
\* data is the first count collected items when n > count
C11_CyclicPadding ==
  Succeeded("/generate") => ResizedCyclically(Collected, body.count, responses[1].data)

\* two different collected items answered a request for three: the third
\* entry repeats the first
C11_TwoItemsForThree ==
  /\ Succeeded("/generate")
  /\ body.count = 3
  /\ Len(Collected) = 2
  /\ Collected[1] # Collected[2]
  /\ responses[1].data = <<Collected[1], Collected[2], Collected[1]>>

\* what the structured parse of the text yields without the cut to `rows`:
\* the surviving headers, at most cols of them, and every parsed row, each
\* cut or padded to cols cells
Yielded(text, cols) == parseTable(text, Len(text.s), cols)

\* the rows are synthesized from nothing but the rules of the headers and
\* the draws
SynthesizedBy(rows, rules) ==
  \E rng \in Rngs : rows = fallbackRows(rules, 0, body.rows, body.cols, rng, 0, <<>>)

Synthesized(rows, headers) == SynthesizedBy(rows, Rules(headers, body.cols))

\* headers are the surviving ones when cols of them survive, else the
\* fallback headers alone
HeadersKeptOrReplaced(headers, surviving) ==
  headers = (IF Len(surviving) = body.cols THEN surviving
             ELSE fallbackHeaders(body.prompt, body.cols))

\* rows are the first `rows` yielded ones when that many were yielded, else
\* all of them are synthesized against the final headers
RowsKeptOrReplaced(rows, yielded, headers) ==
  IF Len(yielded) >= body.rows THEN rows = SubSeq(yielded, 1, body.rows)
  ELSE Synthesized(rows, headers)

\* the response is made of the parsed or the fallback headers and of the
\* parsed or the synthesized rows, each choice made on its own
KeptOrReplaced(response, parsed) ==
  /\ HeadersKeptOrReplaced(response.headers, parsed.headers)
  /\ RowsKeptOrReplaced(response.rows, parsed.bodyRows, response.headers)

\* C12: fallback replaces parsed data, separately for headers and rows: with
\* fewer than cols surviving headers the headers are the fallback ones, else
\* the first cols surviving ones; with fewer than `rows` parsed rows every
\* row is synthesized against the final headers, else the rows are the first
\* `rows` parsed rows, each cut or padded to cols cells
C12_FallbackReplaces ==
  Succeeded("/generateTable") =>
    KeptOrReplaced(responses[1], Yielded(tableText(reply.data), body.cols))

\* the parse gave both headers and one row of the two asked for: the headers
\* are the parsed ones, and no response row is the parsed row
C12_OneRowShort ==
  /\ Succeeded("/generateTable")
  /\ body.rows = 2
  /\ body.cols = 2
  /\ Yielded(tableText(reply.data), 2).bodyRows = <<<<<<"A","l">>, <<"3">>>>>>
  /\ responses[1].headers = <<<<"N","a","m","e">>, <<"A","g","e">>>>
  /\ Len(responses[1].rows) = 2
  /\ \A r \in 1..2 : responses[1].rows[r] # <<<<"A","l">>, <<"3">>>>

====
